---- MODULE Spec2Model ----
(***************************************************************************)
(* The bipartite evidence graph of tools/fido/src/cpp/BasicBigraph.cpp:    *)
(* the read state machine, the disconnect primitives, prune, reindex /     *)
(* buildSubgraph, markSectionPartitions / traceConnected, clonePSM and     *)
(* partitionSections.                                                      *)
(*                                                                         *)
(* Doubles are modelled as exact rationals <<n, d>> (d > 0, lowest terms). *)
(* Arrays are sequences; node indices are 0-based as in the code, so the   *)
(* element of index i of an array a is a[i + 1] (operator At).             *)
(***************************************************************************)
EXTENDS Integers, Sequences, FiniteSets, TLC

\* ------------------------------------------------------------------ bounds
\* number of input directives one read call consumes
MaxLines == 6
\* number of graph operations applied after a successful read
MaxOps == 2
\* number of directives of the read that builds the graph the operations get
MaxGraphLines == 6
\* number of directives of a read that scores one peptide name repeatedly
MaxScoreLines == 9
\* number of directives of the read that builds the graph the pruning steps get
MaxPruneLines == 7
\* number of directives of the read that builds the graph that gets marked
MaxMarkLines == 10
\* number of directives of the read that builds the graph that gets cloned
MaxCloneLines == 7
\* number of directives of the read that builds the graph marked step by step
MaxTraceLines == 8
\* number of calls of traceConnected that may be on the stack at once
MaxStack == 8

\* ------------------------------------------------------- exact rationals
RECURSIVE Gcd(_, _)
Gcd(a, b) == IF b = 0 THEN a ELSE Gcd(b, a % b)

Abs(x) == IF x < 0 THEN -x ELSE x

Rat(n, d) == LET g == Gcd(Abs(n), d) IN <<n \div g, d \div g>>

RLt(a, b) == a[1] * b[2] < b[1] * a[2]

RLe(a, b) == a[1] * b[2] <= b[1] * a[2]

\* std::max(a, b): returns a unless a < b
RMax(a, b) == IF RLt(a, b) THEN b ELSE a

RSub(a, b) == Rat(a[1] * b[2] - b[1] * a[2], a[2] * b[2])

RMul(a, b) == Rat(a[1] * b[1], a[2] * b[2])

ROne == <<1, 1>>

RZero == <<0, 1>>

\* the weight add() gives a new node: "not yet assigned"
Unassigned == <<-1, 1>>

\* the initial value of read's local `value`: "no score read yet"
NoValue == <<-10, 1>>

\* the floor of a charge-state prior, 1e-6
PriorFloor == <<1, 1000000>>

\* ------------------------------------------------------------ index sets
\* Set (not under src/): a set of ints iterated in ascending order
At(a, i) == a[i + 1]

RECURSIVE SortedSeq(_)
SortedSeq(S) ==
  IF S = {} THEN <<>>
  ELSE LET m == CHOOSE x \in S : \A y \in S : x <= y
       IN <<m>> \o SortedSeq(S \ {m})

\* Set::find: the position of x in the ascending order, -1 when absent
Find(S, x) == IF x \in S THEN Cardinality({y \in S : y < x}) ELSE -1

\* Set::reindexToFind: every member that is in universe, as its rank there
ReindexToFind(S, universe) == {Find(universe, x) : x \in S \cap universe}

\* Array<T>::operator[](const Set &): the elements at the selected indices,
\* in ascending order of index
Select(a, S) == [i \in 1..Cardinality(S) |-> At(a, SortedSeq(S)[i])]

\* StringTable::lookup: the number of a name, -1 when it is not known
Lookup(st, name) ==
  IF \E i \in 1..Len(st) : st[i] = name
  THEN (CHOOSE i \in 1..Len(st) : st[i] = name) - 1
  ELSE -1

\* ------------------------------------------------------- input alphabets
Upper == {"A", "B", "C", "D", "E", "F", "G", "H", "I", "J", "K", "L", "M",
          "N", "O", "P", "Q", "R", "S", "T", "U", "V", "W", "X", "Y", "Z"}

\* peptide tokens an `e` directive may carry (strings as character sequences)
PepTokens == { <<"A", "I">>, <<"A", "L">>, <<"K", ".", "G", "a", ".", "R">> }

\* protein tokens an `r` directive may carry
ProtTokens == {"P1", "P2", "P3"}

\* charge states a `c` directive may carry
Charges == {2, 3}

\* scores a `p` directive may carry (probabilities)
Scores == { <<0, 1>>, <<2, 5>>, <<1, 2>>, <<9, 10>> }

\* priors a `d` directive may carry
Priors == { <<0, 1>>, <<1, 2>> }

\* values the caller may give the two public thresholds
PeptideThresholdValues == { <<0, 1>>, <<1, 2>> }

ProteinThresholdValues == { <<0, 1>>, <<19, 20>> }

\* charge states a `d` directive may carry
PriorCharges == {2}

\* tags that are no directive
BadTags == {"x"}

\* --------------------------------------------------- cleanPeptideSequence
\* std::string::substr(pos, len) on a character sequence (pos <= size)
Substr(s, pos, len) ==
  LET last == IF pos + len < Len(s) THEN pos + len ELSE Len(s)
  IN [i \in 1..(last - pos) |-> s[pos + i]]

RECURSIVE KeepCapitals(_)
KeepCapitals(s) ==
  IF s = <<>> THEN <<>>
  ELSE LET c == Head(s)
       IN (IF c \in Upper
           THEN (IF c # "I" THEN <<c>> ELSE <<"L">>)
           ELSE <<>>) \o KeepCapitals(Tail(s))

\* pepSeq.size()-4 is unsigned: below 4 it wraps to a huge length
cleanPeptideSequence(pepSeq) ==
  LET trimmed ==
        IF Len(pepSeq) >= 2 /\ pepSeq[2] = "."
        THEN Substr(pepSeq, 2,
                    IF Len(pepSeq) >= 4 THEN Len(pepSeq) - 4 ELSE Len(pepSeq))
        ELSE pepSeq
  IN KeepCapitals(trimmed)

\* the end of a std::string's buffer
NUL == "\\0"

\* the characters pepSeq[1] may read: the terminator of a string of one
\* character; past the terminator of an empty string, whatever is there
SecondChars(pepSeq) ==
  IF Len(pepSeq) >= 2 THEN {pepSeq[2]}
  ELSE IF Len(pepSeq) = 1 THEN {NUL}
  ELSE {NUL, "."}

\* substr(2, ...) of a string shorter than 2 throws std::out_of_range
OutOfRange == <<"std::out_of_range">>

\* what a call of cleanPeptideSequence may give
cleanOutcomes(pepSeq) ==
  {IF c = "." /\ Len(pepSeq) < 2 THEN OutOfRange ELSE cleanPeptideSequence(pepSeq) :
     c \in SecondChars(pepSeq)}

\* ------------------------------------------------------------ the object
\* GraphLayer (not under src/): parallel arrays, one entry per node
EmptyLayer ==
  [names |-> <<>>, associations |-> <<>>, weights |-> <<>>,
   sections |-> <<>>, sectionMarks |-> <<>>, chargeStates |-> <<>>]

\* GraphLayer::size
Size(gl) == Len(gl.associations)

\* the thresholds ProteinIdentifier's constructor sets (not under src/)
DefaultProteinThreshold == <<0, 1>>

DefaultPeptideThreshold == <<0, 1>>

\* BasicBigraph::BasicBigraph: an empty graph with the constructor's fields
NewBigraph ==
  [PSMsToProteins |-> EmptyLayer, proteinsToPSMs |-> EmptyLayer,
   ProteinThreshold |-> DefaultProteinThreshold,
   PeptideThreshold |-> DefaultPeptideThreshold,
   numberClones |-> 0, severedProteins |-> <<>>]

\* the GraphLayer part of BasicBigraph::add: a new node with no neighbour;
\* the name goes to the StringTable, gl.names is assigned when read ends
add(gl) ==
  [gl EXCEPT !.associations = Append(@, {}),
             !.weights = Append(@, Unassigned),
             !.sections = Append(@, -1),
             !.chargeStates = Append(@, -1)]

\* a connect that assigns the peptide's set instead of adding to it
connect_Replace(g, pepIndex, protIndex) ==
  [g EXCEPT
     !.PSMsToProteins.associations[pepIndex + 1] = {protIndex},
     !.proteinsToPSMs.associations[protIndex + 1] = @ \cup {pepIndex}]

connect(g, pepIndex, protIndex) ==
  [g EXCEPT
     !.PSMsToProteins.associations[pepIndex + 1] = @ \cup {protIndex},
     !.proteinsToPSMs.associations[protIndex + 1] = @ \cup {pepIndex}]

\* a disconnectPSM that clears the peptide's set and forgets the proteins
disconnectPSM_OneSided(g, k) ==
  [g EXCEPT !.PSMsToProteins.associations[k + 1] = {}]

disconnectPSM(g, k) ==
  LET as == At(g.PSMsToProteins.associations, k)
  IN [g EXCEPT
        !.proteinsToPSMs.associations =
           [i \in 1..Len(@) |-> IF (i - 1) \in as THEN @[i] \ {k} ELSE @[i]],
        !.PSMsToProteins.associations[k + 1] = {}]

disconnectProtein(g, k) ==
  LET as == At(g.proteinsToPSMs.associations, k)
  IN [g EXCEPT
        !.PSMsToProteins.associations =
           [i \in 1..Len(@) |-> IF (i - 1) \in as THEN @[i] \ {k} ELSE @[i]],
        !.proteinsToPSMs.associations[k + 1] = {}]

\* a floor that raises low weights to 0.0 (as floorLowPSMs) instead
pseudoCountPSMs_Zero(g) ==
  [g EXCEPT !.PSMsToProteins.weights =
     [i \in 1..Len(@) |-> IF RLt(@[i], g.PeptideThreshold) THEN RZero ELSE @[i]]]

pseudoCountPSMs(g) ==
  [g EXCEPT !.PSMsToProteins.weights =
     [i \in 1..Len(@) |->
        IF RLt(@[i], g.PeptideThreshold) THEN g.PeptideThreshold ELSE @[i]]]

RECURSIVE removePoorPSMsFrom(_, _)
\* a loop that also disconnects the peptides at PeptideThreshold
removePoorPSMsFrom_AtThreshold(g, k) ==
  IF k >= Size(g.PSMsToProteins) THEN g
  ELSE removePoorPSMsFrom(
         IF RLe(At(g.PSMsToProteins.weights, k), g.PeptideThreshold)
         THEN disconnectPSM(g, k) ELSE g,
         k + 1)

removePoorPSMsFrom(g, k) ==
  IF k >= Size(g.PSMsToProteins) THEN g
  ELSE removePoorPSMsFrom(
         IF RLt(At(g.PSMsToProteins.weights, k), RZero)
         THEN disconnectPSM(g, k) ELSE g,
         k + 1)

removePoorPSMs(g) == removePoorPSMsFrom(g, 0)

\* the smallest weight instead of the largest
MinWeight(g, S) ==
  CHOOSE w \in {At(g.PSMsToProteins.weights, i) : i \in S} :
    \A i \in S : RLe(w, At(g.PSMsToProteins.weights, i))

\* Vector::max over the weights of a non-empty set of peptides
MaxWeight(g, S) ==
  CHOOSE w \in {At(g.PSMsToProteins.weights, i) : i \in S} :
    \A i \in S : RLe(At(g.PSMsToProteins.weights, i), w)

\* a protein with no peptide left: disconnectProtein changes nothing for it,
\* so the value Vector::max gives an empty vector does not reach the graph
RECURSIVE removePoorProteinsFrom(_, _)
removePoorProteinsFrom(g, k) ==
  IF k >= Size(g.proteinsToPSMs) THEN g
  ELSE LET as == At(g.proteinsToPSMs.associations, k)
       IN removePoorProteinsFrom(
            IF as # {} /\ RLt(MaxWeight(g, as), g.ProteinThreshold)
            THEN disconnectProtein(g, k) ELSE g,
            k + 1)

removePoorProteins(g) == removePoorProteinsFrom(g, 0)

saveSeveredProteins(g) ==
  [g EXCEPT !.severedProteins =
     LET gl == g.proteinsToPSMs
     IN Select(gl.names, {k \in 0..(Size(gl) - 1) : At(gl.associations, k) = {}})]

\* a layer whose association sets are copied and never renumbered
SubLayer_NoReindex(gl, own, other) ==
  [names |-> Select(gl.names, own),
   associations |-> Select(gl.associations, own),
   weights |-> Select(gl.weights, own),
   sections |-> Select(gl.sections, own),
   sectionMarks |-> <<>>,
   chargeStates |-> Select(gl.chargeStates, own)]

\* one layer of buildSubgraph: the selected nodes, neighbours renumbered
\* against the selection of the other side; sectionMarks are not copied
SubLayer(gl, own, other) ==
  [names |-> Select(gl.names, own),
   associations |-> [i \in 1..Cardinality(own) |->
                       ReindexToFind(Select(gl.associations, own)[i], other)],
   weights |-> Select(gl.weights, own),
   sections |-> Select(gl.sections, own),
   sectionMarks |-> <<>>,
   chargeStates |-> Select(gl.chargeStates, own)]

buildSubgraph(g, connectedProteins, connectedPSMs) ==
  [NewBigraph EXCEPT
     !.PSMsToProteins = SubLayer(g.PSMsToProteins, connectedPSMs, connectedProteins),
     !.proteinsToPSMs = SubLayer(g.proteinsToPSMs, connectedProteins, connectedPSMs)]

\* a selection that keeps every node, with or without neighbour
Connected_All(gl) == 0..(Size(gl) - 1)

\* a loop that starts at node 1 and so never keeps node 0
Connected_SkipFirst(gl) == {k \in 1..(Size(gl) - 1) : At(gl.associations, k) # {}}

Connected(gl) == {k \in 0..(Size(gl) - 1) : At(gl.associations, k) # {}}

\* *this = buildSubgraph(...), then the three backed-up fields are restored
reindex(g) ==
  [buildSubgraph(g, Connected(g.proteinsToPSMs), Connected(g.PSMsToProteins))
     EXCEPT !.numberClones = g.numberClones,
            !.severedProteins = g.severedProteins,
            !.PeptideThreshold = g.PeptideThreshold]

\* --------------------------------------------------- component marking
Layer(g, isPSM) == IF isPSM THEN g.PSMsToProteins ELSE g.proteinsToPSMs

\* a marking that keeps the section a node already has
Mark_KeepFirst(g, index, isPSM, sectionNumber) ==
  IF isPSM
  THEN [g EXCEPT !.PSMsToProteins.sections[index + 1] =
                    IF @ = -1 THEN sectionNumber ELSE @,
                 !.PSMsToProteins.sectionMarks[index + 1] = @ \cup {sectionNumber}]
  ELSE [g EXCEPT !.proteinsToPSMs.sections[index + 1] =
                    IF @ = -1 THEN sectionNumber ELSE @,
                 !.proteinsToPSMs.sectionMarks[index + 1] = @ \cup {sectionNumber}]

\* a marking that sets the section and forgets the mark
Mark_NoMarks(g, index, isPSM, sectionNumber) ==
  IF isPSM
  THEN [g EXCEPT !.PSMsToProteins.sections[index + 1] = sectionNumber]
  ELSE [g EXCEPT !.proteinsToPSMs.sections[index + 1] = sectionNumber]

\* gl.sections[index] = sectionNumber; gl.sectionMarks[index] |= {sectionNumber}
Mark(g, index, isPSM, sectionNumber) ==
  IF isPSM
  THEN [g EXCEPT !.PSMsToProteins.sections[index + 1] = sectionNumber,
                 !.PSMsToProteins.sectionMarks[index + 1] = @ \cup {sectionNumber}]
  ELSE [g EXCEPT !.proteinsToPSMs.sections[index + 1] = sectionNumber,
                 !.proteinsToPSMs.sectionMarks[index + 1] = @ \cup {sectionNumber}]

\* a test that never finds a node visited
Visited_Never(g, index, isPSM, sectionNumber) == FALSE

\* gl.sections[index] == sectionNumber: this traversal has been here
Visited(g, index, isPSM, sectionNumber) ==
  At(Layer(g, isPSM).sections, index) = sectionNumber

\* the boundary of a traversal: a peptide at or below PeptideThreshold
Bounding(g, index, isPSM) ==
  isPSM /\ RLe(At(Layer(g, isPSM).weights, index), g.PeptideThreshold)

\* the arrays markSectionPartitions allocates before its loop
Unmarked(g) ==
  [g EXCEPT
     !.proteinsToPSMs.sectionMarks = [i \in 1..Size(g.proteinsToPSMs) |-> {}],
     !.PSMsToProteins.sectionMarks = [i \in 1..Size(g.PSMsToProteins) |-> {}],
     !.PSMsToProteins.sections = [i \in 1..Size(g.PSMsToProteins) |-> -1],
     !.proteinsToPSMs.sections = [i \in 1..Size(g.proteinsToPSMs) |-> -1]]

RECURSIVE traceConnected(_, _, _, _)
RECURSIVE traceNeighbours(_, _, _, _)
\* the loop of traceConnected over the association set, in ascending order
traceNeighbours(g, as, isPSM, sectionNumber) ==
  IF as = <<>> THEN g
  ELSE traceNeighbours(traceConnected(g, Head(as), isPSM, sectionNumber),
                       Tail(as), isPSM, sectionNumber)

\* a trace that stops only at peptides strictly below the threshold
traceConnected_StrictBound(g, index, isPSM, sectionNumber) ==
  LET gl == Layer(g, isPSM)
  IN IF At(gl.sections, index) = sectionNumber THEN g
     ELSE IF isPSM /\ RLt(At(gl.weights, index), g.PeptideThreshold)
          THEN Mark(g, index, isPSM, sectionNumber)
          ELSE traceNeighbours(Mark(g, index, isPSM, sectionNumber),
                               SortedSeq(At(gl.associations, index)),
                               ~isPSM, sectionNumber)

traceConnected(g, index, isPSM, sectionNumber) ==
  LET gl == Layer(g, isPSM)
  IN IF Visited(g, index, isPSM, sectionNumber) THEN g
     ELSE IF isPSM /\ RLe(At(gl.weights, index), g.PeptideThreshold)
          THEN Mark(g, index, isPSM, sectionNumber)
          ELSE traceNeighbours(Mark(g, index, isPSM, sectionNumber),
                               SortedSeq(At(gl.associations, index)),
                               ~isPSM, sectionNumber)

\* the loop of markSectionPartitions over the proteins; r = [g, section]
RECURSIVE markFrom(_, _)
\* a loop that counts a section for every protein, traced or not
markFrom_CountAll(r, k) ==
  IF k >= Size(r.g.proteinsToPSMs) THEN r
  ELSE markFrom(
         [g |-> IF At(r.g.proteinsToPSMs.sections, k) = -1
                THEN traceConnected(r.g, k, FALSE, r.section)
                ELSE r.g,
          section |-> r.section + 1],
         k + 1)

markFrom(r, k) ==
  IF k >= Size(r.g.proteinsToPSMs) THEN r
  ELSE markFrom(
         IF At(r.g.proteinsToPSMs.sections, k) = -1
         THEN [g |-> traceConnected(r.g, k, FALSE, r.section),
               section |-> r.section + 1]
         ELSE r,
         k + 1)

\* returns the marked graph and the number of sections found
markSectionPartitions(g) == markFrom([g |-> Unmarked(g), section |-> 0], 0)

\* ----------------------------------------------------------------- cloning
\* the proteins of association set s that lie in section sect
\* a grouping that ignores the section: every clone gets every neighbour
ProteinsInSection_All(g, s, sect) == s

ProteinsInSection(g, s, sect) ==
  {j \in s : At(g.proteinsToPSMs.sections, j) = sect}

\* one pass of clonePSM's first loop: the clone for section sect is appended
\* and the proteins of that section get the clone as a neighbour
AddClone(g, pepIndex, sect, prots) ==
  LET psm == g.PSMsToProteins
      new == Size(psm)
  IN [g EXCEPT
        !.PSMsToProteins.names = Append(@, At(psm.names, pepIndex)),
        !.PSMsToProteins.associations = Append(@, prots),
        !.PSMsToProteins.weights = Append(@, At(psm.weights, pepIndex)),
        !.PSMsToProteins.sections = Append(@, sect),
        !.PSMsToProteins.chargeStates = Append(@, At(psm.chargeStates, pepIndex)),
        !.proteinsToPSMs.associations =
           [i \in 1..Len(@) |-> IF (i - 1) \in prots THEN @[i] \cup {new} ELSE @[i]]]

RECURSIVE AddClones(_, _, _, _)
AddClones(g, pepIndex, s, sections) ==
  IF sections = <<>> THEN g
  ELSE AddClones(AddClone(g, pepIndex, Head(sections),
                          ProteinsInSection(g, s, Head(sections))),
                 pepIndex, s, Tail(sections))

\* a clonePSM that counts the original among the clones
clonePSM_CountAll(g, pepIndex) ==
  LET s == At(g.PSMsToProteins.associations, pepIndex)
      sections == {At(g.proteinsToPSMs.sections, j) : j \in s}
      withClones == AddClones(g, pepIndex, s, SortedSeq(sections))
  IN [withClones EXCEPT
        !.proteinsToPSMs.associations =
           [i \in 1..Len(@) |-> IF (i - 1) \in s THEN @[i] \ {pepIndex} ELSE @[i]],
        !.PSMsToProteins.associations[pepIndex + 1] = {},
        !.numberClones = @ + Cardinality(sections)]

clonePSM(g, pepIndex) ==
  LET s == At(g.PSMsToProteins.associations, pepIndex)
      sections == {At(g.proteinsToPSMs.sections, j) : j \in s}
      withClones == AddClones(g, pepIndex, s, SortedSeq(sections))
  IN [withClones EXCEPT
        !.proteinsToPSMs.associations =
           [i \in 1..Len(@) |-> IF (i - 1) \in s THEN @[i] \ {pepIndex} ELSE @[i]],
        !.PSMsToProteins.associations[pepIndex + 1] = {},
        !.numberClones = @ + Cardinality(sections) - 1]

\* the loop of cloneMultipleMarkedPSMs over the first N peptides
RECURSIVE cloneFrom(_, _, _)
\* a loop that clones every peptide that carries a mark at all
cloneFrom_AnyMark(g, k, N) ==
  IF k >= N THEN g
  ELSE cloneFrom(
         IF Cardinality(At(g.PSMsToProteins.sectionMarks, k)) > 0
         THEN clonePSM(g, k) ELSE g,
         k + 1, N)

cloneFrom(g, k, N) ==
  IF k >= N THEN g
  ELSE cloneFrom(
         IF Cardinality(At(g.PSMsToProteins.sectionMarks, k)) > 1
         THEN clonePSM(g, k) ELSE g,
         k + 1, N)

\* a cloneMultipleMarkedPSMs whose test never finds a peptide to clone
cloneMultipleMarkedPSMs_None(g) == [g EXCEPT !.numberClones = 0]

cloneMultipleMarkedPSMs(g) ==
  cloneFrom([g EXCEPT !.numberClones = 0], 0, Size(g.PSMsToProteins))

\* prune up to and including its markSectionPartitions
pruneMarked(g) ==
  LET g1 == removePoorPSMs(g)
      g2 == removePoorProteins(g1)
      g3 == saveSeveredProteins(g2)
      g4 == reindex(g3)
  IN markSectionPartitions(g4).g

prune(g) == reindex(cloneMultipleMarkedPSMs(pruneMarked(g)))

\* ------------------------------------------------------------ partitioning
\* a grouping that puts a node into every subset up to its section
IndicesInSection_Cumulative(gl, k) ==
  {i \in 0..(Size(gl) - 1) : At(gl.sections, i) >= k}

IndicesInSection(gl, k) == {i \in 0..(Size(gl) - 1) : At(gl.sections, i) = k}

\* the marked graph, the number of sections and the components; a peptide
\* whose section is still -1 makes the code index PSMSubsets with -1
partitionSections(g) ==
  LET m == markSectionPartitions(g)
  IN [g |-> m.g,
      numSections |-> m.section,
      outOfRange |-> \E i \in 1..Size(m.g.PSMsToProteins) :
                        m.g.PSMsToProteins.sections[i] = -1,
      result |-> [k \in 1..m.section |->
                    buildSubgraph(m.g,
                                  IndicesInSection(m.g.proteinsToPSMs, k - 1),
                                  IndicesInSection(m.g.PSMsToProteins, k - 1))]]

\* ------------------------------------------------------------------ state
VARIABLES
  bigraph,          \* the BasicBigraph object (this)
  pc,               \* "read": inside read; "failed": read threw FormatException;
                    \* "ready": read returned; "partitioned": partitionSections
                    \* returned; "outOfRange": it indexed its subsets with -1;
                    \* "subgraph": buildSubgraph returned;
                    \* "marking": inside markSectionPartitions;
                    \* "clean": cleanPeptideSequence is called on pepName;
                    \* "thrown": it threw std::out_of_range
  state,            \* read's local `state`: the directive expected next
  instr,            \* read's local `instr`: the tag of the last directive
  value,            \* read's local `value`: the last score read
  pepIndex,         \* read's local `pepIndex`
  pepName,          \* read's local `pepName`
  chargeState,      \* read's local `chargeState`
  PSMNames,         \* read's local StringTable of peptide names
  proteinNames,     \* read's local StringTable of protein names
  PeptideProphetPriorAtChargeState,   \* static array, charge -> prior
  gbUseAllPepMatches,                 \* global flag (option -a)
  gbDoPeptideNameClearing,            \* global flag (option -p)
  components,       \* the array partitionSections returned
  op,               \* the last operation applied before partitionSections
  arg,              \* its argument (-1 when it has none)
  lines,            \* directives consumed so far
  ops,              \* operations applied after read
  prev,             \* history: the last of e, c, r, p that read accepted
  scored,           \* history: per peptide index, how often each score came
  unfloored,        \* history: the peptide weights when the input ended
  cloned,           \* history: the names of the peptides clonePSM has cloned
  limit,            \* the number of directives the input holds at most
  marking           \* markSectionPartitions run step by step: its locals k and
                    \* section, the calls of traceConnected on the stack, and
                    \* the history of the nodes expanded for each section

vars ==
  <<bigraph, pc, state, instr, value, pepIndex, pepName, chargeState, PSMNames,
    proteinNames, PeptideProphetPriorAtChargeState, gbUseAllPepMatches,
    gbDoPeptideNameClearing, components, op, arg, lines, ops, prev, scored,
    unfloored, cloned, limit, marking>>

readLocals == <<state, value, pepIndex, pepName, chargeState, PSMNames, proteinNames>>

globals == <<PeptideProphetPriorAtChargeState, gbUseAllPepMatches, gbDoPeptideNameClearing>>

NoScores == [s \in Scores |-> 0]

\* markSectionPartitions is not running
NotMarking == [k |-> 0, section |-> 0, tracing |-> FALSE, stack |-> <<>>, expanded |-> <<>>]

\* the object after construction, the caller having assigned the two public
\* thresholds and the command line having set the two global flags (each
\* drawn from flags); read is about to consume the first of at most n
\* directives. read does not use ProteinThreshold
StartWith(flags, n, peptideThresholds, proteinThresholds) ==
  /\ \E t \in peptideThresholds, u \in proteinThresholds :
        bigraph = [NewBigraph EXCEPT !.PeptideThreshold = t, !.ProteinThreshold = u]
  /\ gbUseAllPepMatches \in flags
  /\ gbDoPeptideNameClearing \in flags
  /\ limit = n
  /\ marking = NotMarking
  /\ PeptideProphetPriorAtChargeState = <<>>
  /\ pc = "read"
  /\ state = "e"
  /\ instr = ""
  /\ value = NoValue
  /\ pepIndex = -1
  /\ pepName = <<>>
  /\ chargeState = 0
  /\ PSMNames = <<>>
  /\ proteinNames = <<>>
  /\ components = <<>>
  /\ op = "new"
  /\ arg = -1
  /\ lines = 0
  /\ ops = 0
  /\ prev = "none"
  /\ scored = <<>>
  /\ unfloored = <<>>
  /\ cloned = {}

Start(flags, n, proteinThresholds) ==
  StartWith(flags, n, PeptideThresholdValues, proteinThresholds)

\* gbDoPeptideNameClearing = true, gbUseAllPepMatches = false unless the
\* command line toggles them
Init == Start(BOOLEAN, MaxLines, {DefaultProteinThreshold})

\* ------------------------------------------------------------------- read
Reading == pc = "read" /\ lines < limit

Consumed(tag) ==
  /\ instr' = tag
  /\ lines' = lines + 1
  /\ UNCHANGED <<components, op, arg, ops, unfloored, cloned, limit, marking,
                 gbUseAllPepMatches, gbDoPeptideNameClearing>>

\* a chain that also takes a score right after the charge, before any protein
Expected_ScoreAfterCharge(tag, st) ==
  \/ tag \in {"d", "#"}
  \/ tag = "e" /\ st \in {"e", "p"}
  \/ tag = "c" /\ st = "c"
  \/ tag = "r" /\ st \in {"c", "r", "p"}
  \/ tag = "p" /\ st \in {"r", "p"}

\* the conditions of the if / else-if chain that accept tag in state st
Expected(tag, st) ==
  \/ tag = "d"
  \/ tag = "e" /\ st \in {"e", "p"}
  \/ tag = "c" /\ st = "c"
  \/ tag = "r" /\ st \in {"c", "r", "p"}
  \/ tag = "p" /\ st = "p"
  \/ tag = "#"

\* a throw that hands back an empty graph
Throw_RollBack ==
  /\ pc' = "failed"
  /\ bigraph' = [NewBigraph EXCEPT !.PeptideThreshold = bigraph.PeptideThreshold,
                                   !.ProteinThreshold = bigraph.ProteinThreshold]
  /\ UNCHANGED <<readLocals, PeptideProphetPriorAtChargeState, prev, scored>>

\* throw FormatException(): read is left, the object stays as it is
Throw ==
  /\ pc' = "failed"
  /\ UNCHANGED <<bigraph, readLocals, PeptideProphetPriorAtChargeState, prev, scored>>

\* d <charge> <prior>
ReadD(charge, prior) ==
  /\ Reading
  /\ Consumed("d")
  /\ PeptideProphetPriorAtChargeState' =
       (charge :> RMax(prior, PriorFloor)) @@ PeptideProphetPriorAtChargeState
  /\ UNCHANGED <<bigraph, pc, readLocals, prev, scored>>

\* the weight an `e` leaves on a peptide whose score is still pending:
\* value = -1; weights[pepIndex] = max(value, weights[pepIndex])
PendingWeight(w) == RMax(Unassigned, w)

\* e <peptide>
ReadE(token) ==
  /\ Reading
  /\ Expected("e", state)
  /\ Consumed("e")
  /\ IF state = "p" /\ value = NoValue
     THEN Throw
     ELSE LET g1 == IF state = "p"
                    THEN [bigraph EXCEPT !.PSMsToProteins.weights[pepIndex + 1] =
                                            PendingWeight(@)]
                    ELSE bigraph
              name == IF gbDoPeptideNameClearing
                      THEN cleanPeptideSequence(token) ELSE token
              isNew == Lookup(PSMNames, name) = -1
              names == IF isNew THEN Append(PSMNames, name) ELSE PSMNames
          IN /\ value' = IF state = "p" THEN Unassigned ELSE value
             /\ bigraph' = IF isNew
                           THEN [g1 EXCEPT !.PSMsToProteins = add(@)]
                           ELSE g1
             /\ PSMNames' = names
             /\ scored' = IF isNew THEN Append(scored, NoScores) ELSE scored
             /\ pepName' = name
             /\ pepIndex' = Lookup(names, name)
             /\ state' = "c"
             /\ prev' = "e"
             /\ UNCHANGED <<pc, chargeState, proteinNames,
                            PeptideProphetPriorAtChargeState>>

\* c <charge>
ReadC(charge) ==
  /\ Reading
  /\ Expected("c", state)
  /\ Consumed("c")
  /\ chargeState' = charge
  /\ bigraph' = [bigraph EXCEPT !.PSMsToProteins.chargeStates[pepIndex + 1] = charge]
  /\ state' = "r"
  /\ prev' = "c"
  /\ UNCHANGED <<pc, value, pepIndex, pepName, PSMNames, proteinNames,
                 PeptideProphetPriorAtChargeState, scored>>

\* r <protein>
ReadR(protName) ==
  /\ Reading
  /\ Expected("r", state)
  /\ Consumed("r")
  /\ LET isNew == Lookup(proteinNames, protName) = -1
         names == IF isNew THEN Append(proteinNames, protName) ELSE proteinNames
         g1 == IF isNew THEN [bigraph EXCEPT !.proteinsToPSMs = add(@)] ELSE bigraph
     IN /\ proteinNames' = names
        /\ bigraph' = connect(g1, Lookup(PSMNames, pepName), Lookup(names, protName))
  /\ state' = "p"
  /\ prev' = "r"
  /\ UNCHANGED <<pc, value, pepIndex, pepName, chargeState, PSMNames,
                 PeptideProphetPriorAtChargeState, scored>>

\* a score directive that overwrites the weight with the newest score
Scored_Last(w, v, allMatches) == v

\* the weight a `p` gives a peptide of weight w
Scored(w, v, allMatches) ==
  IF ~allMatches THEN RMax(w, v)
  ELSE IF w = Unassigned THEN v
  ELSE RSub(ROne, RMul(RSub(ROne, w), RSub(ROne, v)))

\* p <score>
ReadP(v) ==
  /\ Reading
  /\ Expected("p", state)
  /\ Consumed("p")
  /\ value' = v
  /\ bigraph' = [bigraph EXCEPT
                   !.PSMsToProteins.weights[pepIndex + 1] =
                      Scored(@, v, gbUseAllPepMatches),
                   !.PSMsToProteins.chargeStates[pepIndex + 1] = chargeState]
  /\ scored' = [scored EXCEPT ![pepIndex + 1][v] = @ + 1]
  /\ state' = "e"
  /\ prev' = "p"
  /\ UNCHANGED <<pc, pepIndex, pepName, chargeState, PSMNames, proteinNames,
                 PeptideProphetPriorAtChargeState>>

\* # comment
ReadComment ==
  /\ Reading
  /\ Consumed("#")
  /\ UNCHANGED <<bigraph, pc, readLocals, PeptideProphetPriorAtChargeState,
                 prev, scored>>

\* the final else: unexpected instruction
ReadUnexpected(tag) ==
  /\ Reading
  /\ ~Expected(tag, state)
  /\ Consumed(tag)
  /\ Throw

\* the input ends: the loop is left, the names are assigned and the
\* threshold floor is applied; read returns and its locals are gone
ReadEnd ==
  /\ pc = "read"
  /\ LET g1 == [bigraph EXCEPT !.PSMsToProteins.names = PSMNames,
                               !.proteinsToPSMs.names = proteinNames]
     IN /\ unfloored' = g1.PSMsToProteins.weights
        /\ bigraph' = pseudoCountPSMs(g1)
  /\ pc' = "ready"
  /\ op' = "read"
  /\ state' = "e"
  /\ value' = NoValue
  /\ pepIndex' = -1
  /\ pepName' = <<>>
  /\ chargeState' = 0
  /\ PSMNames' = <<>>
  /\ proteinNames' = <<>>
  /\ scored' = <<>>
  /\ lines' = 0
  /\ instr' = ""
  /\ UNCHANGED <<globals, components, arg, ops, prev, cloned, limit, marking>>

\* ------------------------------------------- operations on the read graph
\* an operation on the object: op and arg name it, the histories of the
\* read call end
Operation(name, a, g, clonedNow) ==
  /\ pc = "ready"
  /\ ops < MaxOps
  /\ bigraph' = g
  /\ op' = name
  /\ arg' = a
  /\ ops' = ops + 1
  /\ prev' = "none"
  /\ unfloored' = <<>>
  /\ cloned' = cloned \cup clonedNow
  /\ UNCHANGED <<pc, instr, readLocals, globals, components, lines, scored, limit, marking>>

PSMIndices == 0..(Size(bigraph.PSMsToProteins) - 1)

ProteinIndices == 0..(Size(bigraph.proteinsToPSMs) - 1)

\* cloneMultipleMarkedPSMs reads sectionMarks[k] for every peptide: they are
\* allocated by markSectionPartitions only
MarksAllocated(g) == Len(g.PSMsToProteins.sectionMarks) = Size(g.PSMsToProteins)

\* the names of the peptides cloneMultipleMarkedPSMs clones
MultipleMarked(g) ==
  {g.PSMsToProteins.names[i] :
     i \in {j \in 1..Len(g.PSMsToProteins.sectionMarks) :
              Cardinality(g.PSMsToProteins.sectionMarks[j]) > 1}}

DisconnectPSM(k) ==
  Operation("disconnectPSM", k, disconnectPSM(bigraph, k), {})

DisconnectProtein(k) ==
  Operation("disconnectProtein", k, disconnectProtein(bigraph, k), {})

RemovePoorPSMs ==
  Operation("removePoorPSMs", -1, removePoorPSMs(bigraph), {})

RemovePoorProteins ==
  Operation("removePoorProteins", -1, removePoorProteins(bigraph), {})

SaveSeveredProteins ==
  Operation("saveSeveredProteins", -1, saveSeveredProteins(bigraph), {})

Reindex ==
  Operation("reindex", -1, reindex(bigraph), {})

MarkSectionPartitions ==
  Operation("markSectionPartitions", -1, markSectionPartitions(bigraph).g, {})

CloneMultipleMarkedPSMs ==
  /\ MarksAllocated(bigraph)
  /\ Operation("cloneMultipleMarkedPSMs", -1, cloneMultipleMarkedPSMs(bigraph),
               MultipleMarked(bigraph))

ClonePSM(k) ==
  Operation("clonePSM", k, clonePSM(bigraph, k),
            {At(bigraph.PSMsToProteins.names, k)})

Prune ==
  Operation("prune", -1, prune(bigraph), MultipleMarked(pruneMarked(bigraph)))

\* buildSubgraph leaves the object alone and returns the subgraph of the
\* selected proteins and peptides
BuildSubgraph(connectedProteins, connectedPSMs) ==
  /\ pc = "ready"
  /\ pc' = "subgraph"
  /\ components' = <<buildSubgraph(bigraph, connectedProteins, connectedPSMs)>>
  /\ op' = "buildSubgraph"
  /\ arg' = <<connectedProteins, connectedPSMs>>
  /\ prev' = "none"
  /\ unfloored' = <<>>
  /\ UNCHANGED <<bigraph, instr, readLocals, globals, lines, ops, scored,
                 cloned, limit, marking>>

\* partitionSections marks the object and returns the components; with a
\* peptide left in section -1 it writes outside its subset array
PartitionSections ==
  /\ pc = "ready"
  /\ LET r == partitionSections(bigraph)
     IN /\ bigraph' = r.g
        /\ IF r.outOfRange
           THEN pc' = "outOfRange" /\ components' = <<>>
           ELSE pc' = "partitioned" /\ components' = r.result
  /\ prev' = "none"
  /\ unfloored' = <<>>
  /\ UNCHANGED <<instr, readLocals, globals, op, arg, lines, ops, scored,
                 cloned, limit, marking>>

\* markSectionPartitions step by step. A call of traceConnected on the stack
\* is [index, isPSM, entered, rest]: entered says that its node has been
\* marked and its loop runs, rest holds the neighbours the loop has to visit
BeginMarking ==
  /\ pc = "ready"
  /\ ops < MaxOps
  /\ pc' = "marking"
  /\ bigraph' = Unmarked(bigraph)
  /\ marking' = NotMarking
  /\ prev' = "none"
  /\ unfloored' = <<>>
  /\ UNCHANGED <<instr, readLocals, globals, components, op, arg, lines, ops,
                 scored, cloned, limit>>

Call(index, isPSM) == [index |-> index, isPSM |-> isPSM, entered |-> FALSE, rest |-> <<>>]

\* one pass of the loop of markSectionPartitions, or the return of the
\* traceConnected it called (section++), or its return
MarkingLoop ==
  /\ pc = "marking"
  /\ marking.stack = <<>>
  /\ IF marking.tracing
     THEN /\ marking' = [marking EXCEPT !.tracing = FALSE, !.section = @ + 1, !.k = @ + 1]
          /\ UNCHANGED <<pc, op, arg, ops>>
     ELSE IF marking.k >= Size(bigraph.proteinsToPSMs)
     THEN /\ pc' = "ready"
          /\ op' = "markSectionPartitions"
          /\ arg' = -1
          /\ ops' = ops + 1
          /\ UNCHANGED marking
     ELSE IF At(bigraph.proteinsToPSMs.sections, marking.k) = -1
     THEN /\ marking' = [marking EXCEPT !.tracing = TRUE,
                                        !.stack = <<Call(marking.k, FALSE)>>]
          /\ UNCHANGED <<pc, op, arg, ops>>
     ELSE /\ marking' = [marking EXCEPT !.k = @ + 1]
          /\ UNCHANGED <<pc, op, arg, ops>>
  /\ UNCHANGED <<bigraph, instr, readLocals, globals, components, lines, scored,
                 prev, unfloored, cloned, limit>>

\* one step of the call of traceConnected on top of the stack
TraceStep ==
  /\ pc = "marking"
  /\ marking.stack # <<>>
  /\ LET n == Len(marking.stack)
         f == marking.stack[n]
         s == marking.section
         below == SubSeq(marking.stack, 1, n - 1)
     IN IF ~f.entered
        THEN IF Visited(bigraph, f.index, f.isPSM, s)
             THEN /\ marking' = [marking EXCEPT !.stack = below]
                  /\ UNCHANGED bigraph
             ELSE /\ bigraph' = Mark(bigraph, f.index, f.isPSM, s)
                  /\ IF Bounding(bigraph, f.index, f.isPSM)
                     THEN marking' = [marking EXCEPT !.stack = below]
                     ELSE marking' =
                            [marking EXCEPT
                               !.stack[n] =
                                  [f EXCEPT !.entered = TRUE,
                                            !.rest = SortedSeq(At(Layer(bigraph, f.isPSM).associations,
                                                                  f.index))],
                               !.expanded = Append(@, <<f.isPSM, f.index, s>>)]
        ELSE IF f.rest = <<>>
        THEN /\ marking' = [marking EXCEPT !.stack = below]
             /\ UNCHANGED bigraph
        ELSE /\ n < MaxStack
             /\ marking' = [marking EXCEPT
                              !.stack = Append([@ EXCEPT ![n].rest = Tail(f.rest)],
                                               Call(Head(f.rest), ~f.isPSM))]
             /\ UNCHANGED bigraph
  /\ UNCHANGED <<pc, instr, readLocals, globals, components, op, arg, lines, ops,
                 scored, prev, unfloored, cloned, limit>>

MarkingStep == MarkingLoop \/ TraceStep

\* the read call alone, over every directive and both global flags
NextRead ==
  \/ \E c \in PriorCharges, q \in Priors : ReadD(c, q)
  \/ \E token \in PepTokens : ReadE(token)
  \/ \E c \in Charges : ReadC(c)
  \/ \E protName \in ProtTokens : ReadR(protName)
  \/ \E v \in Scores : ReadP(v)
  \/ ReadComment
  \/ \E tag \in {"e", "c", "r", "p"} \cup BadTags : ReadUnexpected(tag)
  \/ ReadEnd

SpecRead == Init /\ [][NextRead]_vars

\* the read call over records of one protein, long enough for three scores
\* of one peptide name
NextScore ==
  \/ \E token \in { <<"A", "I">>, <<"A", "L">> } : ReadE(token)
  \/ ReadR("P1")
  \/ \E v \in Scores : ReadP(v)
  \/ ReadEnd

InitScore == Start(BOOLEAN, MaxScoreLines, {DefaultProteinThreshold})

SpecScore == InitScore /\ [][NextScore]_vars

\* the life of one object: a read of well-formed records over the tokens
\* below, with the global flags at their defaults, then the operations
GraphPepTokens == << <<"A", "I">>, <<"K", ".", "G", "a", ".", "R">> >>

\* peptides and proteins are named in the order of their first mention
MentionablePeptides ==
  {GraphPepTokens[i] : i \in {j \in 1..Len(GraphPepTokens) : j <= Len(PSMNames) + 1}}

GraphProtTokens == <<"P1", "P2", "P3">>

MentionableProteins ==
  {GraphProtTokens[i] : i \in {j \in 1..Len(GraphProtTokens) : j <= Len(proteinNames) + 1}}

GraphScores == { <<0, 1>>, <<9, 10>> }

GraphCharges == {2}

InitGraph ==
  /\ Start(BOOLEAN, MaxGraphLines, ProteinThresholdValues)
  /\ gbUseAllPepMatches = FALSE
  /\ gbDoPeptideNameClearing = TRUE

Next ==
  \/ \E token \in MentionablePeptides : ReadE(token)
  \/ \E c \in GraphCharges : ReadC(c)
  \/ \E protName \in MentionableProteins : ReadR(protName)
  \/ \E v \in GraphScores : ReadP(v)
  \/ ReadEnd
  \/ \E k \in PSMIndices : DisconnectPSM(k)
  \/ \E k \in ProteinIndices : DisconnectProtein(k)
  \/ RemovePoorPSMs
  \/ RemovePoorProteins
  \/ SaveSeveredProteins
  \/ Reindex
  \/ MarkSectionPartitions
  \/ CloneMultipleMarkedPSMs
  \/ \E k \in PSMIndices : ClonePSM(k)
  \/ Prune
  \/ PartitionSections

Spec == InitGraph /\ [][Next]_vars

\* marking on its own: a read with the flags at their defaults, then
\* disconnectPSM and markSectionPartitions
MarkPepTokens == << <<"A", "I">>, <<"K", ".", "G", "a", ".", "R">>, <<"A", "K">> >>

MarkablePeptides ==
  {MarkPepTokens[i] : i \in {j \in 1..Len(MarkPepTokens) : j <= Len(PSMNames) + 1}}

InitMark ==
  /\ Start(BOOLEAN, MaxMarkLines, {DefaultProteinThreshold})
  /\ gbUseAllPepMatches = FALSE
  /\ gbDoPeptideNameClearing = TRUE

NextMark ==
  \/ \E token \in MarkablePeptides : ReadE(token)
  \/ \E protName \in MentionableProteins : ReadR(protName)
  \/ \E v \in GraphScores : ReadP(v)
  \/ ReadEnd
  \/ \E k \in PSMIndices : DisconnectPSM(k)
  \/ MarkSectionPartitions

SpecMark == InitMark /\ [][NextMark]_vars

\* markSectionPartitions step by step on a graph read with the flags at their
\* defaults; the code runs on once it has been called
InitTrace ==
  /\ Start(BOOLEAN, MaxTraceLines, {DefaultProteinThreshold})
  /\ gbUseAllPepMatches = FALSE
  /\ gbDoPeptideNameClearing = TRUE

NextTrace ==
  \/ \E token \in MentionablePeptides : ReadE(token)
  \/ \E protName \in MentionableProteins : ReadR(protName)
  \/ \E v \in GraphScores : ReadP(v)
  \/ ReadEnd
  \/ BeginMarking
  \/ MarkingLoop
  \/ TraceStep

SpecTrace == InitTrace /\ [][NextTrace]_vars /\ WF_vars(MarkingStep)

\* cloning on its own: a read with the flags at their defaults, then
\* markSectionPartitions, the two cloning functions, reindex, prune and
\* partitionSections
CloneProteinThresholdValues == { <<0, 1>>, <<1, 2>> }

InitClone ==
  /\ Start(BOOLEAN, MaxCloneLines, CloneProteinThresholdValues)
  /\ gbUseAllPepMatches = FALSE
  /\ gbDoPeptideNameClearing = TRUE

NextClone ==
  \/ \E token \in MarkablePeptides : ReadE(token)
  \/ \E protName \in MentionableProteins : ReadR(protName)
  \/ \E v \in GraphScores : ReadP(v)
  \/ ReadEnd
  \/ MarkSectionPartitions
  \/ CloneMultipleMarkedPSMs
  \/ \E k \in PSMIndices : ClonePSM(k)
  \/ Reindex
  \/ Prune
  \/ PartitionSections

SpecClone == InitClone /\ [][NextClone]_vars

\* buildSubgraph on its own: a read, markSectionPartitions, then buildSubgraph
\* with every selection of proteins and peptides
InitSub ==
  /\ Start(BOOLEAN, MaxGraphLines, {DefaultProteinThreshold})
  /\ gbUseAllPepMatches = FALSE
  /\ gbDoPeptideNameClearing = TRUE

NextSub ==
  \/ \E token \in MentionablePeptides : ReadE(token)
  \/ \E c \in GraphCharges : ReadC(c)
  \/ \E protName \in MentionableProteins : ReadR(protName)
  \/ \E v \in GraphScores : ReadP(v)
  \/ ReadEnd
  \/ MarkSectionPartitions
  \/ \E connectedProteins \in SUBSET ProteinIndices, connectedPSMs \in SUBSET PSMIndices :
        BuildSubgraph(connectedProteins, connectedPSMs)

SpecSub == InitSub /\ [][NextSub]_vars

\* cleanPeptideSequence on its own: a caller passes a string and passes the
\* result again
CleanChars == {"A", "I", "K", ".", "a"}

CleanInputs ==
  UNION {[1..n -> CleanChars] : n \in 2..4}

CleanPeptideSequence ==
  /\ pc = "clean"
  /\ ops < MaxOps
  /\ \E out \in cleanOutcomes(pepName) :
        IF out = OutOfRange
        THEN pc' = "thrown" /\ pepName' = pepName
        ELSE pc' = pc /\ pepName' = out
  /\ ops' = ops + 1
  /\ op' = "cleanPeptideSequence"
  /\ UNCHANGED <<bigraph, state, instr, value, pepIndex, chargeState, PSMNames,
                 proteinNames, globals, components, arg, lines, prev, scored,
                 unfloored, cloned, limit, marking>>

InitClean ==
  /\ bigraph = NewBigraph
  /\ gbUseAllPepMatches = FALSE
  /\ gbDoPeptideNameClearing = TRUE
  /\ limit = 0
  /\ marking = NotMarking
  /\ PeptideProphetPriorAtChargeState = <<>>
  /\ pc = "clean"
  /\ state = "e"
  /\ instr = ""
  /\ value = NoValue
  /\ pepIndex = -1
  /\ pepName \in CleanInputs
  /\ arg = pepName
  /\ chargeState = 0
  /\ PSMNames = <<>>
  /\ proteinNames = <<>>
  /\ components = <<>>
  /\ op = "new"
  /\ lines = 0
  /\ ops = 0
  /\ prev = "none"
  /\ scored = <<>>
  /\ unfloored = <<>>
  /\ cloned = {}

NextClean == CleanPeptideSequence

SpecClean == InitClean /\ [][NextClean]_vars

\* the first steps of prune, each on its own, on a graph read with the flags
\* at their defaults; the caller may have set PeptideThreshold below zero
PrunePeptideThresholdValues == { <<-1, 2>>, <<0, 1>>, <<1, 2>> }

PruneProteinThresholdValues == { <<0, 1>>, <<1, 2>>, <<19, 20>> }

InitPrune ==
  /\ StartWith(BOOLEAN, MaxPruneLines, PrunePeptideThresholdValues,
               PruneProteinThresholdValues)
  /\ gbUseAllPepMatches = FALSE
  /\ gbDoPeptideNameClearing = TRUE

NextPrune ==
  \/ \E token \in MentionablePeptides : ReadE(token)
  \/ \E protName \in MentionableProteins : ReadR(protName)
  \/ \E v \in GraphScores : ReadP(v)
  \/ ReadEnd
  \/ RemovePoorPSMs
  \/ RemovePoorProteins
  \/ SaveSeveredProteins
  \/ Reindex

SpecPrune == InitPrune /\ [][NextPrune]_vars

\* ----------------------------------------------------------------- claims
Edges(g) ==
  {<<p, r>> \in (0..(Size(g.PSMsToProteins) - 1)) \X (0..(Size(g.proteinsToPSMs) - 1)) :
     r \in At(g.PSMsToProteins.associations, p)}

EdgeCount(gl) ==
  LET RECURSIVE Sum(_)
      Sum(i) == IF i = 0 THEN 0 ELSE Cardinality(gl.associations[i]) + Sum(i - 1)
  IN Sum(Size(gl))

\* r is a neighbour of p exactly when p is a neighbour of r, and every
\* neighbour is a node of the other side
Symmetric(g) ==
  /\ \A p \in 0..(Size(g.PSMsToProteins) - 1) :
       \A r \in At(g.PSMsToProteins.associations, p) :
          /\ r \in 0..(Size(g.proteinsToPSMs) - 1)
          /\ p \in At(g.proteinsToPSMs.associations, r)
  /\ \A r \in 0..(Size(g.proteinsToPSMs) - 1) :
       \A p \in At(g.proteinsToPSMs.associations, r) :
          /\ p \in 0..(Size(g.PSMsToProteins) - 1)
          /\ r \in At(g.PSMsToProteins.associations, p)

\* C1: bipartite symmetry holds of the object in every state (during read,
\* after every operation) and of every component partitionSections returns.
C1_BipartiteSymmetry ==
  /\ Symmetric(bigraph)
  /\ \A i \in 1..Len(components) : Symmetric(components[i])

\* a cloned graph was partitioned into two components that both hold an edge
C1_Witness ==
  /\ pc = "partitioned"
  /\ cloned # {}
  /\ Len(components) >= 2
  /\ \A i \in 1..Len(components) : Edges(components[i]) # {}

PeptideNames(g) == {g.PSMsToProteins.names[i] : i \in 1..Len(g.PSMsToProteins.names)}

ProteinNames(g) == {g.proteinsToPSMs.names[i] : i \in 1..Len(g.proteinsToPSMs.names)}

\* the names two different components share
SharedPeptideNames ==
  UNION {PeptideNames(components[i]) \cap PeptideNames(components[j]) :
           <<i, j>> \in {ij \in (1..Len(components)) \X (1..Len(components)) : ij[1] < ij[2]}}

SharedProteinNames ==
  UNION {ProteinNames(components[i]) \cap ProteinNames(components[j]) :
           <<i, j>> \in {ij \in (1..Len(components)) \X (1..Len(components)) : ij[1] < ij[2]}}

\* C2 as stated: after partitionSections no peptide name and no protein name
\* appears in more than one returned component, also after prune.
C2_AsStated ==
  pc = "partitioned" => SharedPeptideNames = {} /\ SharedProteinNames = {}

\* C2 amended: after partitionSections no protein name appears in more than
\* one returned component, and a peptide name appears in more than one
\* component only if clonePSM has cloned a peptide of that name (the clones
\* keep the name of the original and go to different components).
C2_PartitionIndependence ==
  pc = "partitioned" => SharedProteinNames = {} /\ SharedPeptideNames \subseteq cloned

\* an uncloned graph was partitioned into two components with peptides
C2_Witness ==
  /\ pc = "partitioned"
  /\ cloned = {}
  /\ Len(components) >= 2
  /\ \A i \in 1..Len(components) : Size(components[i].PSMsToProteins) > 0

\* the section ids of the protein neighbours of peptide p
NeighbourSections(g, p) ==
  {At(g.proteinsToPSMs.sections, r) : r \in At(g.PSMsToProteins.associations, p)}

RECURSIVE SumOver(_, _, _)
SumOver(seq, F(_), i) == IF i = 0 THEN 0 ELSE F(seq[i]) + SumOver(seq, F, i - 1)

PeptideCount(g) == Size(g.PSMsToProteins)

ProteinCount(g) == Size(g.proteinsToPSMs)

PeptideEdgeCount(g) == EdgeCount(g.PSMsToProteins)

ProteinEdgeCount(g) == EdgeCount(g.proteinsToPSMs)

\* C3: in a pruned graph no peptide has protein neighbours of two different
\* sections, and partitionSections on a pruned graph returns components that
\* together hold every peptide, every protein and every edge exactly once.
C3_SelfContained ==
  /\ (pc = "ready" /\ op = "prune") =>
        \A p \in PSMIndices : Cardinality(NeighbourSections(bigraph, p)) <= 1
  /\ (pc # "read" /\ pc # "ready" /\ op = "prune") =>
        /\ pc = "partitioned"
        /\ SumOver(components, PeptideCount, Len(components)) = PeptideCount(bigraph)
        /\ SumOver(components, ProteinCount, Len(components)) = ProteinCount(bigraph)
        /\ SumOver(components, PeptideEdgeCount, Len(components)) = PeptideEdgeCount(bigraph)
        /\ SumOver(components, ProteinEdgeCount, Len(components)) = ProteinEdgeCount(bigraph)

\* a graph in which prune cloned a bridging peptide was partitioned
C3_Witness ==
  /\ pc = "partitioned"
  /\ op = "prune"
  /\ bigraph.numberClones > 0
  /\ Len(components) >= 2

\* the peptide nodes of g that carry name nm and have a neighbour
ConnectedNamed(g, nm) ==
  {i \in 0..(Size(g.PSMsToProteins) - 1) :
     At(g.PSMsToProteins.names, i) = nm /\ At(g.PSMsToProteins.associations, i) # {}}

\* the nodes appended to g on the way to h that carry name nm
Clones(g, h, nm) ==
  {i \in Size(g.PSMsToProteins)..(Size(h.PSMsToProteins) - 1) :
     At(h.PSMsToProteins.names, i) = nm}

\* peptide k of g, whose neighbours span more than one section, has been
\* cloned on the way to h
ClonedCorrectly(g, h, k) ==
  LET psm == g.PSMsToProteins
      nm == At(psm.names, k)
      s == At(psm.associations, k)
      secs == NeighbourSections(g, k)
      new == Clones(g, h, nm)
      hp == h.PSMsToProteins
  IN /\ Cardinality(new) = Cardinality(secs)
     /\ ConnectedNamed(h, nm) = new
     /\ \A sect \in secs :
          \E i \in new :
             /\ At(hp.sections, i) = sect
             /\ At(hp.associations, i) = {r \in s : At(g.proteinsToPSMs.sections, r) = sect}
     /\ \A i \in new :
          /\ At(hp.weights, i) = At(psm.weights, k)
          /\ At(hp.chargeStates, i) = At(psm.chargeStates, k)
          /\ At(hp.associations, i) # {}
          /\ \A r \in At(hp.associations, i) : i \in At(h.proteinsToPSMs.associations, r)
     /\ At(hp.associations, k) = {}
     /\ \A r \in 0..(Size(h.proteinsToPSMs) - 1) :
          k \notin At(h.proteinsToPSMs.associations, r)

\* C4: when clonePSM (called directly or by cloneMultipleMarkedPSMs) gets a
\* peptide whose protein neighbours span k > 1 sections, and no other
\* connected node carries its name, then afterwards exactly k connected
\* peptide nodes carry the name, one per section, each wired (in both
\* directions) to exactly the original's neighbours of that section, with
\* the original's weight and charge state; the original has no neighbour
\* and is no protein's neighbour.
C4_CloningCorrectness ==
  [][(ops' = ops + 1 /\ op' \in {"clonePSM", "cloneMultipleMarkedPSMs"}) =>
       \A k \in PSMIndices :
          (/\ op' = "clonePSM" => k = arg'
           /\ Cardinality(NeighbourSections(bigraph, k)) > 1
           /\ ConnectedNamed(bigraph, At(bigraph.PSMsToProteins.names, k)) = {k})
          => ClonedCorrectly(bigraph, bigraph', k)]_vars

\* clonePSM has split a peptide that bridged two sections
C4_Witness ==
  /\ pc = "ready"
  /\ op = "clonePSM"
  /\ bigraph.numberClones >= 1
  /\ At(bigraph.PSMsToProteins.associations, arg) = {}
  /\ Cardinality(ConnectedNamed(bigraph, At(bigraph.PSMsToProteins.names, arg))) >= 2

\* C5 as stated: reindex leaves proteinThreshold, peptideThreshold and the
\* severed-protein list as they were.
C5_AsStated ==
  [][(ops' = ops + 1 /\ op' = "reindex") =>
       /\ bigraph'.ProteinThreshold = bigraph.ProteinThreshold
       /\ bigraph'.PeptideThreshold = bigraph.PeptideThreshold
       /\ bigraph'.severedProteins = bigraph.severedProteins]_vars

\* a `p` directive has been accepted earlier in this read call
ScoreSeen == \E i \in 1..Len(scored) : \E v \in Scores : scored[i][v] > 0

\* read consumes a directive in this step
ConsumesDirective == pc = "read" /\ lines' = lines + 1

\* the order C6 states: e, c, one or more r, p; d and # anywhere
ClaimedOrder(last, tag) ==
  \/ tag \in {"d", "#"}
  \/ tag = "e" /\ last \in {"none", "p"}
  \/ tag = "c" /\ last = "e"
  \/ tag = "r" /\ last \in {"c", "r"}
  \/ tag = "p" /\ last = "r"

\* C6 as stated: a directive is accepted exactly in the order e, c, r+, p
\* (d and # anywhere); everything else raises FormatException.
C6_AsStated ==
  [][ConsumesDirective => (pc' = "read" <=> ClaimedOrder(prev, instr'))]_vars

\* C6 amended: a directive is accepted exactly in the order e, optional c,
\* one or more r, p (d and # anywhere), and a new e right after an r is
\* accepted when a p has been read earlier; everything else (a leading c, an
\* e or p right after e or c, a c after c, r or p, an unknown tag) raises
\* FormatException.
C6_DirectiveOrder ==
  [][ConsumesDirective =>
       (pc' = "read" <=>
          \/ ClaimedOrder(prev, instr')
          \/ instr' = "r" /\ prev = "e"
          \/ instr' = "e" /\ prev = "r" /\ ScoreSeen)]_vars

\* the input `e ..., r ...`: the r directly after the e has been accepted
C6_Witness == pc = "read" /\ lines = 2 /\ instr = "r" /\ prev = "r"

\* C7 as stated: read does not return normally when the input ends after an
\* e that has not been followed by its p.
C7_AsStated == (pc = "ready" /\ op = "read") => prev \notin {"e", "c", "r"}

\* C8 as stated: a new e while the score of the previous peptide is pending
\* raises exactly when no score has been read earlier; otherwise read goes on
\* and the unscored peptide's weight becomes the last score read.
C8_AsStated ==
  [][(ConsumesDirective /\ instr' = "e" /\ prev = "r") =>
       IF ~ScoreSeen
       THEN pc' = "failed"
       ELSE /\ pc' = "read"
            /\ At(bigraph'.PSMsToProteins.weights, pepIndex) = value]_vars

\* C9: when read has returned, every peptide weight is at least
\* PeptideThreshold: a weight that was below it is exactly PeptideThreshold,
\* a weight at or above it is unchanged, and no weight is the -1 sentinel.
C9_ThresholdFloor ==
  (pc = "ready" /\ op = "read") =>
     LET w == bigraph.PSMsToProteins.weights
         t == bigraph.PeptideThreshold
     IN /\ Len(w) = Len(unfloored)
        /\ \A i \in 1..Len(w) :
             /\ RLe(t, w[i])
             /\ RLt(unfloored[i], t) => w[i] = t
             /\ RLe(t, unfloored[i]) => w[i] = unfloored[i]
             /\ RLt(Unassigned, t) => w[i] # Unassigned

\* read returned with one peptide never scored and one scored below the
\* threshold
C9_Witness ==
  /\ pc = "ready"
  /\ op = "read"
  /\ \E i \in 1..Len(unfloored) : unfloored[i] = Unassigned
  /\ \E i \in 1..Len(unfloored) :
        /\ unfloored[i] # Unassigned
        /\ RLt(unfloored[i], bigraph.PeptideThreshold)

RECURSIVE RPow(_, _)
RPow(a, n) == IF n = 0 THEN ROne ELSE RMul(a, RPow(a, n - 1))

\* the product over the scores v of (1 - v) ^ counts[v]
RECURSIVE MissProduct(_, _)
MissProduct(counts, S) ==
  IF S = {} THEN ROne
  ELSE LET v == CHOOSE x \in S : TRUE
       IN RMul(RPow(RSub(ROne, v), counts[v]), MissProduct(counts, S \ {v}))

\* the largest score that came
BestScore(counts) ==
  CHOOSE v \in Scores : counts[v] > 0 /\ \A x \in Scores : counts[x] > 0 => RLe(x, v)

\* C10: during read (before the threshold floor) the weight of a peptide
\* name that got the scores s1..sn, in any order, is 1 minus the product of
\* (1 - si) under the all-matches policy and the maximum of s1..sn under the
\* best-match-only policy; a name that got no score has the weight -1.
C10_ScoreCombination ==
  pc = "read" =>
     \A i \in 1..Len(scored) :
        bigraph.PSMsToProteins.weights[i] =
           IF \A v \in Scores : scored[i][v] = 0 THEN Unassigned
           ELSE IF gbUseAllPepMatches
                THEN RSub(ROne, MissProduct(scored[i], Scores))
                ELSE BestScore(scored[i])

\* all-matches: the scores 0.5 and 0.4 came for one name, its weight is 0.7
C10_Witness ==
  /\ pc = "read"
  /\ gbUseAllPepMatches
  /\ \E i \in 1..Len(scored) :
        /\ scored[i] = [v \in Scores |-> IF v \in { <<1, 2>>, <<2, 5>> } THEN 1 ELSE 0]
        /\ bigraph.PSMsToProteins.weights[i] = <<7, 10>>

\* protein k of g has a neighbour and all its neighbours weigh less than
\* ProteinThreshold
PoorProtein(g, k) ==
  LET as == At(g.proteinsToPSMs.associations, k)
  IN /\ as # {}
     /\ \A i \in as : RLt(At(g.PSMsToProteins.weights, i), g.ProteinThreshold)

Severed(g) ==
  {k \in 0..(Size(g.proteinsToPSMs) - 1) : At(g.proteinsToPSMs.associations, k) = {}}

\* C11: removePoorProteins empties the association set of exactly the
\* proteins whose best neighbour weighs less than ProteinThreshold (and takes
\* them out of their peptides' sets), leaves every other protein's set and
\* every node in place; saveSeveredProteins then records exactly the names
\* of the proteins without neighbour and leaves the graph alone.
C11_ProteinPruning ==
  [][(ops' = ops + 1) =>
       /\ op' = "removePoorProteins" =>
            /\ ProteinCount(bigraph') = ProteinCount(bigraph)
            /\ PeptideCount(bigraph') = PeptideCount(bigraph)
            /\ \A k \in ProteinIndices :
                 At(bigraph'.proteinsToPSMs.associations, k) =
                    IF PoorProtein(bigraph, k) THEN {}
                    ELSE At(bigraph.proteinsToPSMs.associations, k)
            /\ \A p \in PSMIndices :
                 At(bigraph'.PSMsToProteins.associations, p) =
                    {k \in At(bigraph.PSMsToProteins.associations, p) :
                       ~PoorProtein(bigraph, k)}
       /\ op' = "saveSeveredProteins" =>
            /\ Len(bigraph'.severedProteins) = Cardinality(Severed(bigraph))
            /\ {bigraph'.severedProteins[i] : i \in 1..Len(bigraph'.severedProteins)} =
                 {At(bigraph.proteinsToPSMs.names, k) : k \in Severed(bigraph)}
            /\ bigraph'.PSMsToProteins = bigraph.PSMsToProteins
            /\ bigraph'.proteinsToPSMs = bigraph.proteinsToPSMs]_vars

\* with ProteinThreshold 0.5 the protein of a peptide of weight 0 has been
\* severed and recorded, the protein of a peptide of weight 0.9 has not
C11_Witness ==
  /\ pc = "ready"
  /\ op = "saveSeveredProteins"
  /\ bigraph.ProteinThreshold = <<1, 2>>
  /\ bigraph.severedProteins = <<"P1">>
  /\ Size(bigraph.proteinsToPSMs) = 2
  /\ At(bigraph.proteinsToPSMs.associations, 0) = {}
  /\ At(bigraph.proteinsToPSMs.associations, 1) # {}
  /\ \E p \in At(bigraph.proteinsToPSMs.associations, 1) :
        At(bigraph.PSMsToProteins.weights, p) = <<9, 10>>

\* C12: removePoorPSMs and removePoorProteins remove edges and add none, so
\* one after the other they never increase the edge count; reindex never
\* increases the number of peptides, of proteins or of edges: it keeps the
\* edge count and takes away no node that has a neighbour.
C12_PruningMonotone ==
  [][(ops' = ops + 1) =>
       /\ op' \in {"removePoorPSMs", "removePoorProteins"} =>
            /\ Edges(bigraph') \subseteq Edges(bigraph)
            /\ PeptideEdgeCount(bigraph') <= PeptideEdgeCount(bigraph)
            /\ ProteinEdgeCount(bigraph') <= ProteinEdgeCount(bigraph)
       /\ op' = "reindex" =>
            /\ PeptideCount(bigraph') <= PeptideCount(bigraph)
            /\ ProteinCount(bigraph') <= ProteinCount(bigraph)
            /\ PeptideEdgeCount(bigraph') = PeptideEdgeCount(bigraph)
            /\ ProteinEdgeCount(bigraph') = ProteinEdgeCount(bigraph)
            /\ PeptideCount(bigraph') >= Cardinality(Connected(bigraph.PSMsToProteins))
            /\ ProteinCount(bigraph') >= Cardinality(Connected(bigraph.proteinsToPSMs))]_vars

\* removePoorProteins severed the first protein and reindex took it and its
\* peptide away; the second protein kept its edge
C12_Witness ==
  /\ pc = "ready"
  /\ op = "reindex"
  /\ ops = 2
  /\ bigraph.proteinsToPSMs.names = <<"P2">>
  /\ Len(bigraph.PSMsToProteins.names) = 1
  /\ Edges(bigraph) # {}

IsUpper(c) == c \in Upper

\* the normalisation C13 describes: with a '.' second, the two leading and
\* the two trailing characters go; then every character outside 'A'..'Z'
\* goes and every 'I' becomes 'L'
ClaimedClean(s) ==
  LET trimmed == IF s[2] = "."
                 THEN [i \in 1..(IF Len(s) >= 4 THEN Len(s) - 4 ELSE 0) |-> s[i + 2]]
                 ELSE s
      kept == SelectSeq(trimmed, IsUpper)
  IN [i \in 1..Len(kept) |-> IF kept[i] = "I" THEN "L" ELSE kept[i]]

\* C13 as stated: for every s of length at least 2, cleanPeptideSequence(s)
\* is s without its two leading and two trailing characters when s[1] is
\* '.', without every character outside 'A'..'Z' and with 'L' for every
\* 'I'; it holds only uppercase letters other than 'I', and cleaning it again
\* gives the same string.
C13_AsStated ==
  ops >= 1 =>
     /\ pc = "clean"
     /\ pepName = ClaimedClean(arg)
     /\ \A i \in 1..Len(pepName) : pepName[i] \in Upper \ {"I"}

\* the graph has just been marked by markSectionPartitions
Marked == pc = "ready" /\ op = "markSectionPartitions"

ProteinSection(g, k) == At(g.proteinsToPSMs.sections, k)

PeptideSection(g, p) == At(g.PSMsToProteins.sections, p)

ProteinMarks(g, k) == At(g.proteinsToPSMs.sectionMarks, k)

PeptideMarks(g, p) == At(g.PSMsToProteins.sectionMarks, p)

\* the traversal of section s marks the proteins of section s and every
\* peptide next to one of them: the ids whose traversal reached peptide p
\* are the sections of its neighbours
ReachedBy(g, p) == NeighbourSections(g, p)

\* section ids are handed out in ascending order: the first id a node
\* received is its smallest mark, the last id its largest
FirstId(S) == IF S = {} THEN -1 ELSE CHOOSE x \in S : \A y \in S : x <= y

LastId(S) == IF S = {} THEN -1 ELSE CHOOSE x \in S : \A y \in S : y <= x

MarksAreReached(g) ==
  /\ \A k \in 0..(Size(g.proteinsToPSMs) - 1) : ProteinMarks(g, k) = {ProteinSection(g, k)}
  /\ \A p \in 0..(Size(g.PSMsToProteins) - 1) : PeptideMarks(g, p) = ReachedBy(g, p)

\* C14 as stated: after markSectionPartitions the marks of a node are the
\* ids of the traversals that reached it, and its section is the first id
\* it received.
C14_AsStated ==
  Marked =>
     /\ MarksAreReached(bigraph)
     /\ \A k \in ProteinIndices :
          ProteinSection(bigraph, k) = FirstId(ProteinMarks(bigraph, k))
     /\ \A p \in PSMIndices :
          PeptideSection(bigraph, p) = FirstId(PeptideMarks(bigraph, p))

\* C14 amended: after markSectionPartitions the marks of a node are the ids
\* of the traversals that reached it, and its section is the last id it
\* received: a later traversal that reaches an already-assigned peptide adds
\* a mark and overwrites the section (a node no traversal reached has
\* section -1 and no mark).
C14_SectionIsLastMark ==
  Marked =>
     /\ MarksAreReached(bigraph)
     /\ \A k \in ProteinIndices :
          ProteinSection(bigraph, k) = LastId(ProteinMarks(bigraph, k))
     /\ \A p \in PSMIndices :
          PeptideSection(bigraph, p) = LastId(PeptideMarks(bigraph, p))

\* a peptide was reached by the traversals 0 and 1 and ended in section 1
C14_Witness ==
  /\ Marked
  /\ \E p \in PSMIndices :
        PeptideMarks(bigraph, p) = {0, 1} /\ PeptideSection(bigraph, p) = 1

\* C15: markSectionPartitions returns n such that every protein has a
\* section in 0..n-1, every id in 0..n-1 is the section of a protein, and
\* every peptide with a neighbour has a section in 0..n-1.
C15_DenseCoverage ==
  [][(ops' = ops + 1 /\ op' = "markSectionPartitions") =>
       LET n == markSectionPartitions(bigraph).section
           g == bigraph'
       IN /\ \A k \in 0..(Size(g.proteinsToPSMs) - 1) : ProteinSection(g, k) \in 0..(n - 1)
          /\ \A id \in 0..(n - 1) :
               \E k \in 0..(Size(g.proteinsToPSMs) - 1) : ProteinSection(g, k) = id
          /\ \A p \in 0..(Size(g.PSMsToProteins) - 1) :
               At(g.PSMsToProteins.associations, p) # {} =>
                  PeptideSection(g, p) \in 0..(n - 1)]_vars

\* three proteins got two sections (two of them share one), one protein has
\* no neighbour, and a peptide without neighbour stayed at -1
C15_Witness ==
  /\ Marked
  /\ Size(bigraph.proteinsToPSMs) = 3
  /\ {ProteinSection(bigraph, k) : k \in ProteinIndices} = {0, 1}
  /\ \E k \in ProteinIndices : At(bigraph.proteinsToPSMs.associations, k) = {}
  /\ \E p \in PSMIndices : PeptideSection(bigraph, p) = -1

HighPeptide(g, p) == RLt(g.PeptideThreshold, At(g.PSMsToProteins.weights, p))

\* two proteins are the same or share a peptide heavier than PeptideThreshold
Linked(g) ==
  LET prots == 0..(Size(g.proteinsToPSMs) - 1)
  IN {ab \in prots \X prots :
        \/ ab[1] = ab[2]
        \/ \E p \in 0..(Size(g.PSMsToProteins) - 1) :
              /\ HighPeptide(g, p)
              /\ {ab[1], ab[2]} \subseteq At(g.PSMsToProteins.associations, p)}

RECURSIVE Closure(_, _)
Closure(R, n) ==
  IF n = 0 THEN R
  ELSE LET nodes == {ab[1] : ab \in R}
       IN Closure({ac \in nodes \X nodes :
                     \E b \in nodes : <<ac[1], b>> \in R /\ <<b, ac[2]>> \in R},
                  n - 1)

\* joined by a path on which every peptide is heavier than PeptideThreshold
Joined(g) == Closure(Linked(g), Size(g.proteinsToPSMs))

\* C16: after markSectionPartitions two proteins have the same section
\* exactly when a path joins them on which every peptide weighs more than
\* PeptideThreshold; a peptide at or below the threshold that has a
\* neighbour is marked, and does not join its neighbours.
C16_ComponentsByHighPaths ==
  Marked =>
     /\ {ab \in ProteinIndices \X ProteinIndices :
           ProteinSection(bigraph, ab[1]) = ProteinSection(bigraph, ab[2])}
          = Joined(bigraph)
     /\ \A p \in PSMIndices :
          (~HighPeptide(bigraph, p) /\ At(bigraph.PSMsToProteins.associations, p) # {})
             => PeptideMarks(bigraph, p) # {}

\* P1 and P3 share no peptide and got one section through P2 and two heavy
\* peptides
C16_Witness ==
  /\ Marked
  /\ Size(bigraph.proteinsToPSMs) = 3
  /\ \A k \in ProteinIndices : ProteinSection(bigraph, k) = 0
  /\ <<0, 2>> \notin Linked(bigraph)
  /\ <<0, 2>> \in Joined(bigraph)

NthSmallest(S, i) == CHOOSE x \in S : Cardinality({y \in S : y < x}) = i - 1

Rank(S, x) == Cardinality({y \in S : y < x})

\* layer dst is layer src cut down to the nodes own, its neighbours cut down
\* to other and numbered by their rank in other
CutDown(src, dst, own, other) ==
  LET n == Cardinality(own)
  IN /\ Len(dst.names) = n
     /\ Len(dst.associations) = n
     /\ Len(dst.weights) = n
     /\ Len(dst.sections) = n
     /\ Len(dst.chargeStates) = n
     /\ \A i \in 1..n :
          LET o == NthSmallest(own, i)
          IN /\ dst.names[i] = At(src.names, o)
             /\ dst.weights[i] = At(src.weights, o)
             /\ dst.sections[i] = At(src.sections, o)
             /\ dst.chargeStates[i] = At(src.chargeStates, o)
             /\ dst.associations[i] =
                  {Rank(other, x) : x \in {y \in At(src.associations, o) : y \in other}}
             /\ dst.associations[i] \subseteq 0..(Cardinality(other) - 1)

\* C17: buildSubgraph(selectedProteins, selectedPSMs) returns the graph
\* whose i-th peptide (protein) is the selected node of i-th smallest index
\* with its name, weight, section and charge state, and whose association
\* sets hold exactly the ranks, in the selection of the other side, of the
\* selected neighbours; so every index of the result is a node of the result.
C17_SubgraphReindexed ==
  pc = "subgraph" =>
     /\ CutDown(bigraph.PSMsToProteins, components[1].PSMsToProteins, arg[2], arg[1])
     /\ CutDown(bigraph.proteinsToPSMs, components[1].proteinsToPSMs, arg[1], arg[2])

\* of the proteins 0, 1, 2 of a marked graph the last two were selected: a
\* peptide with the neighbours 0 and 1 has the one neighbour 0 in the result
C17_Witness ==
  /\ pc = "subgraph"
  /\ arg[1] = {1, 2}
  /\ \E p \in arg[2] :
        /\ At(bigraph.PSMsToProteins.associations, p) = {0, 1}
        /\ At(bigraph.PSMsToProteins.sections, p) # -1
        /\ components[1].PSMsToProteins.associations[Rank(arg[2], p) + 1] = {0}

IsPrefix(a, b) == Len(a) <= Len(b) /\ \A i \in 1..Len(a) : a[i] = b[i]

NoDuplicates(a) == \A i, j \in 1..Len(a) : a[i] = a[j] => i = j

NamesOf(a) == {a[i] : i \in 1..Len(a)}

\* C18: a directive read removes no node and no edge; an e creates a peptide
\* node exactly when its (normalised) name has not been mentioned and
\* otherwise goes back to the index the name got first, an r creates a
\* protein node exactly when its name is new and adds at most the edge from
\* the current peptide; no other directive changes nodes or edges. The
\* nodes keep their indices, so the edges after a prefix of the input are
\* among the edges after any longer prefix.
C18_ReadOnlyGrows ==
  [][ConsumesDirective =>
       /\ Edges(bigraph) \subseteq Edges(bigraph')
       /\ IsPrefix(PSMNames, PSMNames')
       /\ IsPrefix(proteinNames, proteinNames')
       /\ NoDuplicates(PSMNames')
       /\ NoDuplicates(proteinNames')
       /\ PeptideCount(bigraph') = Len(PSMNames')
       /\ ProteinCount(bigraph') = Len(proteinNames')
       /\ IF instr' = "e" /\ pc' = "read"
          THEN /\ PeptideCount(bigraph') =
                    PeptideCount(bigraph) + (IF pepName' \in NamesOf(PSMNames) THEN 0 ELSE 1)
               /\ At(PSMNames', pepIndex') = pepName'
               /\ gbDoPeptideNameClearing =>
                    \A i \in 1..Len(pepName') : pepName'[i] \in Upper \ {"I"}
               /\ ProteinCount(bigraph') = ProteinCount(bigraph)
               /\ Edges(bigraph') = Edges(bigraph)
          ELSE IF instr' = "r" /\ pc' = "read"
          THEN /\ PeptideCount(bigraph') = PeptideCount(bigraph)
               /\ ProteinCount(bigraph') \in {ProteinCount(bigraph), ProteinCount(bigraph) + 1}
               /\ \E j \in 0..(ProteinCount(bigraph') - 1) :
                     Edges(bigraph') = Edges(bigraph) \cup {<<pepIndex, j>>}
          ELSE /\ PeptideCount(bigraph') = PeptideCount(bigraph)
               /\ ProteinCount(bigraph') = ProteinCount(bigraph)
               /\ Edges(bigraph') = Edges(bigraph)]_vars

\* a peptide name was mentioned a second time: still one peptide node, now
\* with the edges of both mentions
C18_Witness ==
  /\ pc = "read"
  /\ prev = "r"
  /\ ScoreSeen
  /\ Len(PSMNames) = 1
  /\ Cardinality(Edges(bigraph)) = 2

\* C19: the step in which read raises FormatException leaves the graph
\* object exactly as the directives before left it (nothing is rolled back,
\* the name arrays are not assigned, the threshold floor is not applied),
\* and after it read does nothing more.
C19_ThrowAborts ==
  [][/\ (pc = "read" /\ pc' = "failed") =>
          /\ bigraph' = bigraph
          /\ bigraph'.PSMsToProteins.names = <<>>
          /\ bigraph'.proteinsToPSMs.names = <<>>
          /\ PeptideCount(bigraph') = Len(PSMNames)
     /\ pc = "failed" => UNCHANGED vars]_vars

\* read failed on its sixth directive: the graph holds the two edges and the
\* score read before, and an unscored peptide still below the threshold
C19_Witness ==
  /\ pc = "failed"
  /\ lines = 6
  /\ Cardinality(Edges(bigraph)) = 2
  /\ bigraph.PSMsToProteins.names = <<>>
  /\ \E i \in 1..PeptideCount(bigraph) :
        bigraph.PSMsToProteins.weights[i] = <<9, 10>>
  /\ \E i \in 1..PeptideCount(bigraph) :
        /\ bigraph.PSMsToProteins.weights[i] = Unassigned
        /\ RLt(bigraph.PSMsToProteins.weights[i], bigraph.PeptideThreshold)

RECURSIVE SumSet(_, _)
SumSet(F(_), S) ==
  IF S = {} THEN 0
  ELSE LET x == CHOOSE y \in S : TRUE IN F(x) + SumSet(F, S \ {x})

\* the operation named is applied in this step
Applies(name) == ops' = ops + 1 /\ op' = name

\* the peptides of g that carry more than one mark
ManyMarked(g) ==
  {k \in 0..(Size(g.PSMsToProteins) - 1) : Cardinality(PeptideMarks(g, k)) > 1}

\* C21: markSectionPartitions leaves on every peptide exactly the sections
\* of its protein neighbours as marks; a cloneMultipleMarkedPSMs that
\* follows it clones (takes every neighbour from) exactly the peptides whose
\* neighbours span more than one section and appends as many nodes as
\* these peptides have marks; a clonePSM that follows it appends as many
\* clones as its peptide has marks.
C21_MarksDriveCloning ==
  [][/\ Applies("markSectionPartitions") =>
          \A p \in 0..(Size(bigraph'.PSMsToProteins) - 1) :
             PeptideMarks(bigraph', p) = NeighbourSections(bigraph', p)
     /\ (Marked /\ Applies("cloneMultipleMarkedPSMs")) =>
          LET MarkCount(k) == Cardinality(PeptideMarks(bigraph, k))
          IN /\ \A k \in PSMIndices :
                  (/\ At(bigraph.PSMsToProteins.associations, k) # {}
                   /\ At(bigraph'.PSMsToProteins.associations, k) = {})
                     <=> Cardinality(NeighbourSections(bigraph, k)) > 1
             /\ \A k \in PSMIndices :
                  Cardinality(NeighbourSections(bigraph, k)) <= 1 =>
                     At(bigraph'.PSMsToProteins.associations, k) =
                        At(bigraph.PSMsToProteins.associations, k)
             /\ PeptideCount(bigraph') =
                  PeptideCount(bigraph) + SumSet(MarkCount, ManyMarked(bigraph))
     /\ (Marked /\ Applies("clonePSM")) =>
          PeptideCount(bigraph') =
             PeptideCount(bigraph) + Cardinality(PeptideMarks(bigraph, arg'))]_vars

\* cloneMultipleMarkedPSMs split one peptide in two and left another
\* peptide, which has a neighbour, alone
C21_Witness ==
  /\ pc = "ready"
  /\ op = "cloneMultipleMarkedPSMs"
  /\ bigraph.numberClones = 1
  /\ PeptideCount(bigraph) = 4
  /\ At(bigraph.PSMsToProteins.associations, 0) = {}
  /\ At(bigraph.PSMsToProteins.associations, 1) # {}

\* C22: clonePSM keeps the number of edges and the number of neighbours of
\* every protein (each neighbour of the peptide loses it and gains exactly
\* one clone); after cloneMultipleMarkedPSMs numberClones is the sum, over
\* the peptides it cloned, of the number of sections spanned minus one;
\* after prune the number of peptides is the number of connected peptides
\* before the cloning plus numberClones; reindex leaves numberClones alone.
C22_CloneArithmetic ==
  [][/\ Applies("clonePSM") =>
          LET k == arg'
              old == Size(bigraph.PSMsToProteins)
          IN /\ PeptideEdgeCount(bigraph') = PeptideEdgeCount(bigraph)
             /\ ProteinEdgeCount(bigraph') = ProteinEdgeCount(bigraph)
             /\ \A r \in ProteinIndices :
                  LET before == At(bigraph.proteinsToPSMs.associations, r)
                      after == At(bigraph'.proteinsToPSMs.associations, r)
                  IN /\ Cardinality(after) = Cardinality(before)
                     /\ k \in before =>
                          /\ k \notin after
                          /\ Cardinality({c \in after : c >= old}) = 1
                          /\ after \ {c \in after : c >= old} = before \ {k}
                     /\ k \notin before => after = before
     /\ Applies("cloneMultipleMarkedPSMs") =>
          LET Spanned(k) == Cardinality(NeighbourSections(bigraph, k)) - 1
          IN bigraph'.numberClones = SumSet(Spanned, ManyMarked(bigraph))
     /\ Applies("prune") =>
          PeptideCount(bigraph') =
             Cardinality(Connected(pruneMarked(bigraph).PSMsToProteins))
                + bigraph'.numberClones
     /\ Applies("reindex") => bigraph'.numberClones = bigraph.numberClones]_vars

\* prune cloned one of two connected peptides once: three peptides
C22_Witness ==
  /\ pc = "ready"
  /\ op = "prune"
  /\ bigraph.numberClones = 1
  /\ PeptideCount(bigraph) = 3
  /\ Cardinality(NamesOf(bigraph.PSMsToProteins.names)) = 2

\* C24: after prune every peptide and every protein has a neighbour; a
\* partitionSections that follows leaves no node in section -1 and returns
\* without indexing its subsets with -1.
C24_PrunedGraphPartitions ==
  /\ (pc = "ready" /\ op = "prune") =>
        /\ \A p \in PSMIndices : At(bigraph.PSMsToProteins.associations, p) # {}
        /\ \A r \in ProteinIndices : At(bigraph.proteinsToPSMs.associations, r) # {}
  /\ (pc \in {"partitioned", "outOfRange"} /\ op = "prune") =>
        /\ pc = "partitioned"
        /\ \A p \in PSMIndices : PeptideSection(bigraph, p) # -1
        /\ \A r \in ProteinIndices : ProteinSection(bigraph, r) # -1

\* prune cloned a peptide, the reindex took the original away, and
\* partitionSections gave every one of the three peptides a section
C24_Witness ==
  /\ pc = "partitioned"
  /\ op = "prune"
  /\ ops = 1
  /\ bigraph.numberClones = 1
  /\ PeptideCount(bigraph) = 3
  /\ \A p \in PSMIndices : PeptideSection(bigraph, p) \in 0..(Len(components) - 1)

\* C25: removePoorPSMs takes every neighbour from exactly the peptides of
\* negative weight; on the graph a successful read returned with
\* PeptideThreshold >= 0 no weight is negative, a peptide that never got a
\* score weighs PeptideThreshold, and removePoorPSMs changes nothing.
C25_FlooredPeptidesKept ==
  [][Applies("removePoorPSMs") =>
       /\ \A p \in PSMIndices :
            At(bigraph'.PSMsToProteins.associations, p) =
               IF RLt(At(bigraph.PSMsToProteins.weights, p), RZero) THEN {}
               ELSE At(bigraph.PSMsToProteins.associations, p)
       /\ (op = "read" /\ RLe(RZero, bigraph.PeptideThreshold)) =>
            /\ \A p \in PSMIndices :
                 /\ ~RLt(At(bigraph.PSMsToProteins.weights, p), RZero)
                 /\ At(unfloored, p) = Unassigned =>
                      At(bigraph.PSMsToProteins.weights, p) = bigraph.PeptideThreshold
            /\ bigraph' = bigraph]_vars

\* removePoorPSMs ran on a read graph with PeptideThreshold 0.5: the peptide
\* that never got a score weighs 0.5 and still has its neighbour
C25_Witness ==
  /\ pc = "ready"
  /\ op = "removePoorPSMs"
  /\ ops = 1
  /\ bigraph.PeptideThreshold = <<1, 2>>
  /\ \E p \in PSMIndices :
        /\ At(bigraph.PSMsToProteins.chargeStates, p) = -1
        /\ At(bigraph.PSMsToProteins.weights, p) = <<1, 2>>
        /\ At(bigraph.PSMsToProteins.associations, p) # {}

\* the nodes of g, as <<isPSM, index>>
Nodes(g) ==
  ({TRUE} \X (0..(Size(g.PSMsToProteins) - 1)))
    \cup ({FALSE} \X (0..(Size(g.proteinsToPSMs) - 1)))

\* the call on top of the stack is about to test a node that already has the
\* section of the traversal
AtVisitedNode ==
  /\ pc = "marking"
  /\ marking.stack # <<>>
  /\ LET f == marking.stack[Len(marking.stack)]
     IN ~f.entered /\ Visited(bigraph, f.index, f.isPSM, marking.section)

\* markSectionPartitions has returned from a run that went step by step
MarkingDone == pc = "ready" /\ op = "markSectionPartitions"

\* C23: markSectionPartitions terminates on every finite graph, cycles
\* included: once called it returns; a call of traceConnected with section s
\* on a node that already has section s returns at once and changes nothing;
\* no node is expanded twice for one section; the calls on the stack never
\* outnumber the nodes by more than one; and the graph it returns with is the
\* graph the whole call computes.
C23_MarkingTerminates ==
  /\ [](/\ NoDuplicates(marking.expanded)
        /\ \A i \in 1..Len(marking.expanded) :
             /\ <<marking.expanded[i][1], marking.expanded[i][2]>> \in Nodes(bigraph)
             /\ marking.expanded[i][3] \in 0..marking.section
        /\ Len(marking.stack) <= Cardinality(Nodes(bigraph)) + 1
        /\ MarkingDone => bigraph = markSectionPartitions(bigraph).g)
  /\ [][AtVisitedNode =>
          /\ marking'.stack = SubSeq(marking.stack, 1, Len(marking.stack) - 1)
          /\ marking'.expanded = marking.expanded
          /\ bigraph' = bigraph]_vars
  /\ ((pc = "marking") ~> MarkingDone)

\* markSectionPartitions has returned on a cycle: two proteins that share two
\* peptides above PeptideThreshold, all four expanded once for section 0
C23_Witness ==
  /\ MarkingDone
  /\ Size(bigraph.proteinsToPSMs) = 2
  /\ Size(bigraph.PSMsToProteins) = 2
  /\ \A p \in 0..1 :
       /\ HighPeptide(bigraph, p)
       /\ At(bigraph.PSMsToProteins.associations, p) = {0, 1}
  /\ {marking.expanded[i] : i \in 1..Len(marking.expanded)}
       = {<<n[1], n[2], 0>> : n \in Nodes(bigraph)}
  /\ marking.section = 1

====
